---- MODULE Spec2Model ----
(***************************************************************************)
(* A model of the Huffman codec of huffman.py and of the sorted queue of   *)
(* priority_queue.py.  A tree is a function from paths to nodes: the path  *)
(* <<>> is the root, Append(p, 1) is the left child of p ("the 1 node")    *)
(* and Append(p, 0) the right child ("the 0 node").  None is the tree with *)
(* no node.  A dict is the sequence of its items in insertion order.       *)
(***************************************************************************)
EXTENDS Integers, Sequences, FiniteSets, TLC

VARIABLES
    pc,            \* position of the running call, "idle" between calls
    text,          \* the argument of the running build_tree / encode call
    outcome,       \* per operation: not_called, running, returned, or the exception raised
    byteorder,     \* sys.byteorder, which struct's native "H" follows
    input, char_freqs, head, code_dict, has_code_dict,   \* the encoder's HuffmanTree
    freq,                                                \* the dict of frequencies()
    pqueue, left, right, ci,                             \* build_tree locals
    output, byte, num_bits, total_length, padding, ei,   \* encode locals
    encoded,                                             \* encode's return value
    buf,                                                 \* the argument of decode
    char_list, codes, header_length, ri,                 \* decode locals (header)
    dec_char_list, dec_code_dict, dec_head, ti,          \* the decoder's HuffmanTree
    decoded_text, previous_bits, previous_bits_length, di, \* decode locals (data)
    decoded,                                             \* decode's return value
    hist, popped   \* history of the queue: nodes in push order, the last pop

ctl == <<pc, text, outcome, byteorder>>
treeVars == <<input, char_freqs, head, code_dict, has_code_dict>>
buildLocals == <<freq, pqueue, left, right, ci>>
encLocals == <<output, byte, num_bits, total_length, padding, ei, encoded>>
hdrLocals == <<char_list, codes, header_length, ri>>
decTree == <<dec_char_list, dec_code_dict, dec_head, ti>>
dataLocals == <<decoded_text, previous_bits, previous_bits_length, di, decoded>>
decVars == <<buf, hdrLocals, decTree, dataLocals>>
ghost == <<hist, popped>>
vars == <<ctl, treeVars, buildLocals, encLocals, decVars, ghost>>

----------------------------------------------------------------------------
(* Bounds of the model *)

MaxTextLen == 3
MaxEncLen == 2
MaxRepeat == 9
MaxPushes == 4
MaxFreq == 3

Symbols == {97, 98, 99}
AbsentSyms == {120}
ByteOrders == {"little", "big"}

SeqsUpTo(S, n) == UNION {[1..k -> S] : k \in 0..n}

Range(s) == {s[i] : i \in 1..Len(s)}

Min(S) == CHOOSE x \in S : \A y \in S : x <= y

RECURSIVE Pow2(_)
Pow2(n) == IF n <= 0 THEN 1 ELSE 2 * Pow2(n - 1)

Repeat(c, k) == [i \in 1..k |-> c]

\* A text in which each symbol of fr (pairs <<symbol, count>>) occurs count
\* times, symbols in the order of fr.
RECURSIVE TextOf(_)
TextOf(fr) ==
    IF fr = <<>> THEN <<>> ELSE Repeat(fr[1][1], fr[1][2]) \o TextOf(Tail(fr))

\* Fibonacci-like counts: the tree is a chain, codes reach 9 bits.
DeepText ==
    TextOf(<< <<97, 1>>, <<98, 3>>, <<99, 1>>, <<100, 2>>, <<101, 5>>,
              <<102, 8>>, <<103, 13>>, <<104, 21>>, <<105, 34>>, <<106, 55>> >>)

BuildTexts ==
    SeqsUpTo(Symbols, MaxTextLen)
        \cup {Repeat(97, k) : k \in 1..MaxRepeat}
        \cup {DeepText}

EncTexts(built_from) ==
    {built_from}
        \cup SeqsUpTo(Symbols, MaxEncLen)
        \cup {Append(t, x) : t \in SeqsUpTo(Symbols, 1), x \in AbsentSyms}

----------------------------------------------------------------------------
(* dict *)

DictHas(d, k) == \E i \in 1..Len(d) : d[i].k = k

DictGet(d, k) == d[CHOOSE i \in 1..Len(d) : d[i].k = k].v

DictSet(d, k, v) ==
    IF DictHas(d, k)
    THEN [i \in 1..Len(d) |-> IF d[i].k = k THEN [k |-> k, v |-> v] ELSE d[i]]
    ELSE Append(d, [k |-> k, v |-> v])

\* "freq.setdefault(c, 0)" then "freq[c] += 1"
CountChar(fr, c) ==
    LET f1 == IF DictHas(fr, c) THEN fr ELSE DictSet(fr, c, 0)
    IN  DictSet(f1, c, DictGet(f1, c) + 1)

----------------------------------------------------------------------------
(* HuffmanNode *)

NoNode == [p \in {} |-> 0]

IsNone(t) == DOMAIN t = {}

HuffmanNode(cl, fq, l, r) ==
    [p \in {<<>>} \cup {<<1>> \o q : q \in DOMAIN l} \cup {<<0>> \o q : q \in DOMAIN r} |->
        IF p = <<>> THEN [char_list |-> cl, freq |-> fq]
        ELSE IF p[1] = 1 THEN l[Tail(p)] ELSE r[Tail(p)]]

HasLeft(t, n) == Append(n, 1) \in DOMAIN t

HasRight(t, n) == Append(n, 0) \in DOMAIN t

Freq(t) == t[<<>>].freq

----------------------------------------------------------------------------
(* PriorityQueue *)

PushFifo(q, val) ==
    LET idx == {i \in 1..Len(q) : Freq(val) < Freq(q[i])}
    IN  IF idx = {} THEN Append(q, val)
        ELSE SubSeq(q, 1, Min(idx) - 1) \o <<val>> \o SubSeq(q, Min(idx), Len(q))

\* The new node goes in front of the first node i with val <= i.val, at the
\* end when there is none.
Push(q, val) ==
    LET idx == {i \in 1..Len(q) : Freq(val) <= Freq(q[i])}
    IN  IF idx = {} THEN Append(q, val)
        ELSE SubSeq(q, 1, Min(idx) - 1) \o <<val>> \o SubSeq(q, Min(idx), Len(q))

Pop(q) ==
    IF q = <<>> THEN [val |-> NoNode, q |-> q]
    ELSE [val |-> Head(q), q |-> Tail(q)]

----------------------------------------------------------------------------
(* struct.pack / struct.unpack_from, native mode *)

IsByte(v) == v \in 0..255

IsUShort(v) == v \in 0..65535

PackB(v) == <<v>>

PackH(v) ==
    IF byteorder = "little" THEN <<v % 256, v \div 256>>
    ELSE <<v \div 256, v % 256>>

\* off is the 0-based offset of unpack_from
UnpackB(b, off) == b[off + 1]

UnpackH(b, off) ==
    IF byteorder = "little" THEN b[off + 1] + 256 * b[off + 2]
    ELSE 256 * b[off + 1] + b[off + 2]

\* x | y on naturals
RECURSIVE BitOr(_, _)
BitOr(x, y) ==
    IF x = 0 THEN y
    ELSE IF y = 0 THEN x
    ELSE 2 * BitOr(x \div 2, y \div 2) + (IF x % 2 = 1 \/ y % 2 = 1 THEN 1 ELSE 0)

----------------------------------------------------------------------------
(* BitIter *)

BitIterLsbFirst(i, length) == [b \in 1..length |-> (i \div Pow2(b - 1)) % 2]

\* The bits of i from bit length-1 down to bit 0.
BitIter(i, length) == [b \in 1..length |-> (i \div Pow2(length - b)) % 2]

----------------------------------------------------------------------------
(* HuffmanTree.get_code *)

RECURSIVE GetCodeWalkSameBit(_, _, _, _, _)
GetCodeWalkSameBit(t, n, char, length, code) ==
    IF ~HasLeft(t, n) /\ ~HasRight(t, n)
    THEN [length |-> length, code |-> code, spin |-> FALSE]
    ELSE IF HasLeft(t, n) /\ char \in Range(t[Append(n, 1)].char_list)
    THEN GetCodeWalkSameBit(t, Append(n, 1), char, length + 1, BitOr(code * 2, 1))
    ELSE IF HasRight(t, n) /\ char \in Range(t[Append(n, 0)].char_list)
    THEN GetCodeWalkSameBit(t, Append(n, 0), char, length + 1, BitOr(code * 2, 1))
    ELSE [length |-> length, code |-> code, spin |-> TRUE]

\* The while loop of get_code from node n on.  spin: the loop is at a node
\* with a child where neither branch is taken, so it iterates for ever
\* without changing anything.
RECURSIVE GetCodeWalk(_, _, _, _, _)
GetCodeWalk(t, n, char, length, code) ==
    IF ~HasLeft(t, n) /\ ~HasRight(t, n)
    THEN [length |-> length, code |-> code, spin |-> FALSE]
    ELSE IF HasLeft(t, n) /\ char \in Range(t[Append(n, 1)].char_list)
    THEN GetCodeWalk(t, Append(n, 1), char, length + 1, BitOr(code * 2, 1))
    ELSE IF HasRight(t, n) /\ char \in Range(t[Append(n, 0)].char_list)
    THEN GetCodeWalk(t, Append(n, 0), char, length + 1, BitOr(code * 2, 0))
    ELSE [length |-> length, code |-> code, spin |-> TRUE]

GetCodeNoLeafCase(t, cd, has_cd, char) ==
    IF has_cd /\ DictHas(cd, char)
    THEN [length |-> DictGet(cd, char)[1], code |-> DictGet(cd, char)[2], spin |-> FALSE]
    ELSE GetCodeWalk(t, <<>>, char, 0, 0)

GetCode(t, cd, has_cd, char) ==
    IF has_cd /\ DictHas(cd, char)
    THEN [length |-> DictGet(cd, char)[1], code |-> DictGet(cd, char)[2], spin |-> FALSE]
    ELSE IF ~HasLeft(t, <<>>) /\ ~HasRight(t, <<>>)
    THEN GetCodeWalk(t, <<>>, char, 1, 1)
    ELSE GetCodeWalk(t, <<>>, char, 0, 0)

get_code(char) == GetCode(head, code_dict, has_code_dict, char)

----------------------------------------------------------------------------
(* HuffmanTree.encode_tree *)

RECURSIVE EncodeTreeRecords(_)
EncodeTreeRecords(cl) ==
    IF cl = <<>> THEN <<>>
    ELSE LET g == get_code(Head(cl))
         IN  PackB(Head(cl)) \o PackB(g.length) \o PackH(g.code)
                 \o EncodeTreeRecords(Tail(cl))

\* The attribute encoded_tree is never set, so the header is always computed.
encode_tree == PackH(Len(head[<<>>].char_list)) \o EncodeTreeRecords(head[<<>>].char_list)

\* struct.pack raises struct.error on a value out of its format's range
EncodeTreePacks ==
    /\ IsUShort(Len(head[<<>>].char_list))
    /\ \A c \in Range(head[<<>>].char_list) :
          IsByte(c) /\ IsByte(get_code(c).length) /\ IsUShort(get_code(c).code)

----------------------------------------------------------------------------
(* HuffmanTree.get_char *)

GetCharEnd(t, n, length) ==
    IF n \notin DOMAIN t \/ HasLeft(t, n) \/ HasRight(t, n)
    THEN [length |-> 0, char |-> 0, exc |-> "none"]
    ELSE IF t[n].char_list = <<>>
    THEN [length |-> 0, char |-> 0, exc |-> "IndexError"]
    ELSE [length |-> length, char |-> t[n].char_list[1], exc |-> "none"]

\* The for loop over the bits from node n on; n outside the tree is None.
\* length 0 stands for the result (None, None): the caller tests
\* "if code_length", which None and 0 both fail.
RECURSIVE GetCharWalk(_, _, _, _)
GetCharWalk(t, n, bits, length) ==
    IF bits = <<>> THEN GetCharEnd(t, n, length)
    ELSE IF n \notin DOMAIN t THEN [length |-> 0, char |-> 0, exc |-> "none"]
    ELSE IF ~HasLeft(t, n) /\ ~HasRight(t, n) THEN GetCharEnd(t, n, length)
    ELSE GetCharWalk(t, Append(n, Head(bits)), Tail(bits), length + 1)

get_char(t, code, max_length) == GetCharWalk(t, <<>>, BitIter(code, max_length), 0)

----------------------------------------------------------------------------
(* decode: placing one item of code_dict in the tree *)

AppendChar(t, n, k) ==
    IF n \in DOMAIN t THEN [t EXCEPT ![n].char_list = Append(@, k)]
    ELSE (n :> [char_list |-> <<k>>, freq |-> 0]) @@ t

RECURSIVE InsertBits(_, _, _, _)
InsertBits(t, n, k, bits) ==
    IF bits = <<>> THEN t
    ELSE InsertBits(AppendChar(t, Append(n, Head(bits)), k),
                    Append(n, Head(bits)), k, Tail(bits))

InsertItem(t, k, v) == InsertBits(AppendChar(t, <<>>, k), <<>>, k, BitIter(v[2], v[1]))

----------------------------------------------------------------------------
(* The initial state: two fresh HuffmanTree objects, no call made yet *)

Init ==
    /\ pc = "idle"
    /\ text = <<>>
    /\ outcome = [build_tree |-> "not_called", encode |-> "not_called",
                  decode |-> "not_called"]
    /\ byteorder \in ByteOrders
    /\ input = <<>> /\ char_freqs = <<>> /\ head = NoNode
    /\ code_dict = <<>> /\ has_code_dict = FALSE
    /\ freq = <<>> /\ pqueue = <<>> /\ left = NoNode /\ right = NoNode /\ ci = 0
    /\ output = <<>> /\ byte = 0 /\ num_bits = 0 /\ total_length = 0
    /\ padding = 0 /\ ei = 0 /\ encoded = <<>>
    /\ buf = <<>>
    /\ char_list = <<>> /\ codes = <<>> /\ header_length = 0 /\ ri = 0
    /\ dec_char_list = <<>> /\ dec_code_dict = <<>> /\ dec_head = NoNode /\ ti = 0
    /\ decoded_text = <<>> /\ previous_bits = 0 /\ previous_bits_length = 0
    /\ di = 0 /\ decoded = <<>>
    /\ hist = <<>>
    /\ popped = [called |-> FALSE, val |-> NoNode, from |-> <<>>, rest |-> <<>>]

\* A call ends: it returns, or raises exc.
Ends(op, how) ==
    /\ pc' = "idle"
    /\ outcome' = [outcome EXCEPT ![op] = how]

----------------------------------------------------------------------------
(* HuffmanTree.build_tree *)

CallBuildTree(t) ==
    /\ pc = "idle"
    /\ outcome.encode = "not_called" /\ outcome.decode = "not_called"
    /\ hist = <<>> /\ ~popped.called
    /\ t = <<>> \/ IsNone(head)
    /\ pc' = "build_tree"
    /\ text' = t
    /\ outcome' = [outcome EXCEPT !.build_tree = "running"]
    /\ UNCHANGED <<byteorder, treeVars, buildLocals, encLocals, decVars, ghost>>

BuildTreeEntryAssignFirst ==
    /\ pc = "build_tree"
    /\ input' = text
    /\ freq' = <<>>
    /\ ci' = 1
    /\ IF text = <<>>
       THEN Ends("build_tree", "ValueError")
       ELSE pc' = "build_freq" /\ UNCHANGED outcome
    /\ UNCHANGED <<text, byteorder, char_freqs, head, code_dict, has_code_dict,
                   pqueue, left, right, encLocals, decVars, ghost>>

\* "if not text: raise ValueError", "self.input = text", and the call of
\* frequencies with its empty dict
BuildTreeEntry ==
    /\ pc = "build_tree"
    /\ IF text = <<>>
       THEN /\ Ends("build_tree", "ValueError")
            /\ UNCHANGED <<input, freq, ci>>
       ELSE /\ input' = text
            /\ freq' = <<>>
            /\ ci' = 1
            /\ pc' = "build_freq"
            /\ UNCHANGED outcome
    /\ UNCHANGED <<text, byteorder, char_freqs, head, code_dict, has_code_dict,
                   pqueue, left, right, encLocals, decVars, ghost>>

\* frequencies: one iteration of "for c in text"
BuildCount ==
    /\ pc = "build_freq"
    /\ ci <= Len(input)
    /\ freq' = CountChar(freq, input[ci])
    /\ ci' = ci + 1
    /\ UNCHANGED <<ctl, treeVars, pqueue, left, right, encLocals, decVars, ghost>>

\* "self.char_freqs = frequencies(self.input)" returns; "pqueue = PriorityQueue()"
BuildQueue ==
    /\ pc = "build_freq"
    /\ ci > Len(input)
    /\ char_freqs' = freq
    /\ pqueue' = <<>>
    /\ ci' = 1
    /\ pc' = "build_push"
    /\ UNCHANGED <<text, outcome, byteorder, input, head, code_dict, has_code_dict,
                   freq, left, right, encLocals, decVars, ghost>>

\* one iteration of "for k, v in self.char_freqs.items()"
BuildPush ==
    /\ pc = "build_push"
    /\ ci <= Len(char_freqs)
    /\ pqueue' = Push(pqueue, HuffmanNode(<<char_freqs[ci].k>>, char_freqs[ci].v,
                                          NoNode, NoNode))
    /\ ci' = ci + 1
    /\ UNCHANGED <<ctl, treeVars, freq, left, right, encLocals, decVars, ghost>>

\* the two pops before the while loop
BuildFirstPop ==
    /\ pc = "build_push"
    /\ ci > Len(char_freqs)
    /\ left' = Pop(pqueue).val
    /\ right' = Pop(Pop(pqueue).q).val
    /\ pqueue' = Pop(Pop(pqueue).q).q
    /\ pc' = "build_loop"
    /\ UNCHANGED <<text, outcome, byteorder, treeVars, freq, ci, encLocals, decVars,
                   ghost>>

\* one iteration of "while left and right"
BuildMerge ==
    /\ pc = "build_loop"
    /\ ~IsNone(left) /\ ~IsNone(right)
    /\ LET q1 == Push(pqueue,
                      HuffmanNode(left[<<>>].char_list \o right[<<>>].char_list,
                                  Freq(left) + Freq(right), left, right))
       IN  /\ left' = Pop(q1).val
           /\ right' = Pop(Pop(q1).q).val
           /\ pqueue' = Pop(Pop(q1).q).q
    /\ UNCHANGED <<ctl, treeVars, freq, ci, encLocals, decVars, ghost>>

\* "self.head = left" and "self.code_dict = {}"
BuildHead ==
    /\ pc = "build_loop"
    /\ IsNone(left) \/ IsNone(right)
    /\ head' = left
    /\ code_dict' = <<>>
    /\ has_code_dict' = TRUE
    /\ ci' = 1
    /\ pc' = "build_codes"
    /\ UNCHANGED <<text, outcome, byteorder, input, char_freqs, freq, pqueue, left,
                   right, encLocals, decVars, ghost>>

\* one iteration of "for c in self.head.char_list"
BuildCode ==
    /\ pc = "build_codes"
    /\ ci <= Len(head[<<>>].char_list)
    /\ LET c == head[<<>>].char_list[ci]
           g == get_code(c)
       IN  IF g.spin
           THEN UNCHANGED <<code_dict, ci>>
           ELSE /\ code_dict' = DictSet(code_dict, c, <<g.length, g.code>>)
                /\ ci' = ci + 1
    /\ UNCHANGED <<ctl, input, char_freqs, head, has_code_dict, freq, pqueue, left,
                   right, encLocals, decVars, ghost>>

BuildReturn ==
    /\ pc = "build_codes"
    /\ ci > Len(head[<<>>].char_list)
    /\ Ends("build_tree", "returned")
    /\ UNCHANGED <<text, byteorder, treeVars, buildLocals, encLocals, decVars, ghost>>

----------------------------------------------------------------------------
(* HuffmanTree.encode *)

CallEncode(t) ==
    /\ pc = "idle"
    /\ ~IsNone(head)
    /\ outcome.encode = "not_called" /\ outcome.decode = "not_called"
    /\ pc' = "encode"
    /\ text' = t
    /\ outcome' = [outcome EXCEPT !.encode = "running"]
    /\ UNCHANGED <<byteorder, treeVars, buildLocals, encLocals, decVars, ghost>>

\* "output = self.encode_tree()" and the three counters
EncodeEntry ==
    /\ pc = "encode"
    /\ IF ~EncodeTreePacks
       THEN /\ Ends("encode", "struct.error")
            /\ UNCHANGED <<output, byte, num_bits, total_length, ei>>
       ELSE /\ output' = encode_tree
            /\ byte' = 0
            /\ num_bits' = 0
            /\ total_length' = 0
            /\ ei' = 1
            /\ pc' = "encode_loop"
            /\ UNCHANGED outcome
    /\ UNCHANGED <<text, byteorder, treeVars, buildLocals, padding, encoded,
                   decVars, ghost>>

\* one iteration of "for c in text".  While get_code spins the iteration
\* never ends and nothing changes.
EncodeSymbol ==
    /\ pc = "encode_loop"
    /\ ei <= Len(text)
    /\ LET g == get_code(text[ei])
           b1 == BitOr(byte * Pow2(g.length), g.code)
           n1 == num_bits + g.length
           overflow == n1 - 8
       IN  IF g.spin
           THEN UNCHANGED <<pc, outcome, output, byte, num_bits, total_length, ei>>
           ELSE IF n1 >= 8
           THEN IF ~IsByte(b1 \div Pow2(overflow))
                THEN /\ Ends("encode", "struct.error")
                     /\ byte' = b1
                     /\ num_bits' = n1
                     /\ UNCHANGED <<output, total_length, ei>>
                ELSE /\ output' = output \o PackB(b1 \div Pow2(overflow))
                     /\ total_length' = total_length + 1
                     /\ byte' = b1 % Pow2(overflow)
                     /\ num_bits' = overflow
                     /\ ei' = ei + 1
                     /\ UNCHANGED <<pc, outcome>>
           ELSE /\ byte' = b1
                /\ num_bits' = n1
                /\ ei' = ei + 1
                /\ UNCHANGED <<pc, outcome, output, total_length>>
    /\ UNCHANGED <<text, byteorder, treeVars, buildLocals, padding, encoded,
                   decVars, ghost>>

\* after the loop: the last, padded byte and the return.  A negative
\* padding is a negative shift count: ValueError.
EncodeFinish ==
    /\ pc = "encode_loop"
    /\ ei > Len(text)
    /\ IF num_bits # 0
       THEN /\ padding' = 8 - num_bits
            /\ IF 8 - num_bits < 0
               THEN /\ Ends("encode", "ValueError")
                    /\ UNCHANGED <<output, total_length, encoded>>
               ELSE IF ~IsByte(byte * Pow2(8 - num_bits))
               THEN /\ Ends("encode", "struct.error")
                    /\ UNCHANGED <<output, total_length, encoded>>
               ELSE /\ output' = output \o PackB(byte * Pow2(8 - num_bits))
                    /\ total_length' = total_length + 1
                    /\ encoded' = output'
                    /\ Ends("encode", "returned")
       ELSE /\ encoded' = output
            /\ Ends("encode", "returned")
            /\ UNCHANGED <<output, total_length, padding>>
    /\ UNCHANGED <<text, byteorder, treeVars, buildLocals, byte, num_bits, ei,
                   decVars, ghost>>

----------------------------------------------------------------------------
(* HuffmanTree.decode, on a fresh HuffmanTree *)

PackRecord(r) == PackB(r[1]) \o PackB(r[2]) \o PackH(r[3])

\* Headers that encode_tree does not produce: two records <<symbol, length,
\* codeword>> that may share a path, then one data byte.
CraftedRecords ==
    {<<97, 1, 1>>, <<97, 2, 3>>, <<98, 1, 1>>, <<98, 1, 0>>, <<98, 2, 3>>, <<98, 2, 2>>}

CraftedData == {<<192>>, <<64>>}

CraftedBufs ==
    {PackH(2) \o PackRecord(r1) \o PackRecord(r2) \o d :
        r1 \in CraftedRecords, r2 \in CraftedRecords, d \in CraftedData}

CallDecode(b) ==
    /\ pc = "idle"
    /\ outcome.decode = "not_called"
    /\ hist = <<>> /\ ~popped.called
    /\ \/ outcome.encode = "returned" /\ b = encoded
       \/ outcome.build_tree = "not_called" /\ b \in CraftedBufs
    /\ pc' = "decode"
    /\ buf' = b
    /\ outcome' = [outcome EXCEPT !.decode = "running"]
    /\ UNCHANGED <<text, byteorder, treeVars, buildLocals, encLocals, hdrLocals,
                   decTree, dataLocals, ghost>>

\* the two empty collections and header_length
DecodeEntry ==
    /\ pc = "decode"
    /\ IF Len(buf) < 2
       THEN /\ Ends("decode", "struct.error")
            /\ UNCHANGED <<char_list, codes, header_length, ri>>
       ELSE /\ char_list' = <<>>
            /\ codes' = <<>>
            /\ header_length' = UnpackH(buf, 0) * 4 + 2
            /\ ri' = 2
            /\ pc' = "decode_header"
            /\ UNCHANGED outcome
    /\ UNCHANGED <<text, byteorder, treeVars, buildLocals, encLocals, buf,
                   decTree, dataLocals, ghost>>

\* one iteration of "for i in range(2, header_length, 4)"
DecodeRecord ==
    /\ pc = "decode_header"
    /\ ri < header_length
    /\ IF Len(buf) < ri + 4
       THEN /\ Ends("decode", "struct.error")
            /\ UNCHANGED <<char_list, codes, ri>>
       ELSE /\ char_list' = Append(char_list, UnpackB(buf, ri))
            /\ codes' = DictSet(codes, UnpackB(buf, ri),
                                <<UnpackB(buf, ri + 1), UnpackH(buf, ri + 2)>>)
            /\ ri' = ri + 4
            /\ UNCHANGED <<pc, outcome>>
    /\ UNCHANGED <<text, byteorder, treeVars, buildLocals, encLocals, buf,
                   header_length, decTree, dataLocals, ghost>>

\* "self.char_list = char_list", "self.code_dict = codes", "self.head = HuffmanNode([])"
DecodeNewHead ==
    /\ pc = "decode_header"
    /\ ri >= header_length
    /\ dec_char_list' = char_list
    /\ dec_code_dict' = codes
    /\ dec_head' = HuffmanNode(<<>>, 0, NoNode, NoNode)
    /\ ti' = 1
    /\ pc' = "decode_tree"
    /\ UNCHANGED <<text, outcome, byteorder, treeVars, buildLocals, encLocals, buf,
                   hdrLocals, dataLocals, ghost>>

\* one iteration of "for k, v in self.code_dict.items()"
DecodePlace ==
    /\ pc = "decode_tree"
    /\ ti <= Len(dec_code_dict)
    /\ dec_head' = InsertItem(dec_head, dec_code_dict[ti].k, dec_code_dict[ti].v)
    /\ ti' = ti + 1
    /\ UNCHANGED <<ctl, treeVars, buildLocals, encLocals, buf, hdrLocals,
                   dec_char_list, dec_code_dict, dataLocals, ghost>>

\* decode's total_length
DataLength == Len(buf) - header_length

DecodeDataInit ==
    /\ pc = "decode_tree"
    /\ ti > Len(dec_code_dict)
    /\ decoded_text' = <<>>
    /\ previous_bits' = 0
    /\ previous_bits_length' = 0
    /\ di' = 0
    /\ pc' = "decode_loop"
    /\ UNCHANGED <<text, outcome, byteorder, treeVars, buildLocals, encLocals, buf,
                   hdrLocals, decTree, decoded, ghost>>

\* one iteration of "while True"
DecodeStep ==
    /\ pc = "decode_loop"
    /\ LET r == get_char(dec_head, previous_bits, previous_bits_length)
       IN  IF r.exc # "none"
           THEN /\ Ends("decode", r.exc)
                /\ UNCHANGED <<decoded_text, previous_bits, previous_bits_length,
                               di, decoded>>
           ELSE IF r.length # 0
           THEN /\ decoded_text' = Append(decoded_text, r.char)
                /\ previous_bits_length' = previous_bits_length - r.length
                /\ previous_bits' = previous_bits % Pow2(previous_bits_length - r.length)
                /\ UNCHANGED <<pc, outcome, di, decoded>>
           ELSE IF di > DataLength - 1
           THEN /\ decoded' = decoded_text
                /\ Ends("decode", "returned")
                /\ UNCHANGED <<decoded_text, previous_bits, previous_bits_length, di>>
           ELSE /\ previous_bits' =
                       BitOr(previous_bits * 256, UnpackB(buf, di + header_length))
                /\ previous_bits_length' = previous_bits_length + 8
                /\ di' = di + 1
                /\ UNCHANGED <<pc, outcome, decoded_text, decoded>>
    /\ UNCHANGED <<text, byteorder, treeVars, buildLocals, encLocals, buf,
                   hdrLocals, decTree, ghost>>

----------------------------------------------------------------------------
(* PriorityQueue on its own: any sequence of push and pop *)

\* The pushed node carries its push number as its one char.
QPush(f) ==
    /\ pc = "idle"
    /\ outcome.build_tree = "not_called" /\ outcome.decode = "not_called"
    /\ Len(hist) < MaxPushes
    /\ LET node == HuffmanNode(<<Len(hist) + 1>>, f, NoNode, NoNode)
       IN  /\ pqueue' = Push(pqueue, node)
           /\ hist' = Append(hist, node)
    /\ UNCHANGED <<ctl, treeVars, freq, left, right, ci, encLocals, decVars, popped>>

QPop ==
    /\ pc = "idle"
    /\ outcome.build_tree = "not_called" /\ outcome.decode = "not_called"
    /\ popped' = [called |-> TRUE, val |-> Pop(pqueue).val, from |-> pqueue,
                  rest |-> Pop(pqueue).q]
    /\ pqueue' = Pop(pqueue).q
    /\ UNCHANGED <<ctl, treeVars, freq, left, right, ci, encLocals, decVars, hist>>

----------------------------------------------------------------------------

Next ==
    \/ pc = "idle" /\ \E t \in BuildTexts \cup {<<>>} : CallBuildTree(t)
    \/ BuildTreeEntry
    \/ BuildCount
    \/ BuildQueue
    \/ BuildPush
    \/ BuildFirstPop
    \/ BuildMerge
    \/ BuildHead
    \/ BuildCode
    \/ BuildReturn
    \/ pc = "idle" /\ \E t \in EncTexts(input) : CallEncode(t)
    \/ EncodeEntry
    \/ EncodeSymbol
    \/ EncodeFinish
    \/ pc = "idle" /\ \E b \in {encoded} \cup CraftedBufs : CallDecode(b)
    \/ DecodeEntry
    \/ DecodeRecord
    \/ DecodeNewHead
    \/ DecodePlace
    \/ DecodeDataInit
    \/ DecodeStep

Spec == Init /\ [][Next]_vars

NextQ ==
    \/ \E f \in 1..MaxFreq : QPush(f)
    \/ QPop

SpecQ == Init /\ [][NextQ]_vars

----------------------------------------------------------------------------
(* Vocabulary of the properties *)

\* The bit string of a codeword: bits length-1 down to 0.
CodePath(length, code) == [b \in 1..length |-> (code \div Pow2(length - b)) % 2]

IsPrefix(p, q) == Len(p) <= Len(q) /\ SubSeq(q, 1, Len(p)) = p

\* build_tree has set head and filled code_dict
Built == ~IsNone(head) /\ pc # "build_codes"

Finished(op) == outcome[op] \notin {"not_called", "running"}

OneSymbol(t) == t # <<>> /\ \A i \in 1..Len(t) : t[i] = t[1]

Occurrences(t, c) == Cardinality({i \in 1..Len(t) : t[i] = c})

RECURSIVE SumBits(_, _)
SumBits(t, cs) ==
    IF cs = {} THEN 0
    ELSE LET c == CHOOSE x \in cs : TRUE
         IN  Occurrences(t, c) * get_code(c).length + SumBits(t, cs \ {c})

\* T: the code bits of a text on the built tree
TotalBits(t) == SumBits(t, Range(t))

CeilDiv8(n) == (n + 7) \div 8

Triples(d) == {<<d[i].k, d[i].v[1], d[i].v[2]>> : i \in 1..Len(d)}

\* decode has rebuilt its tree from the header
Reconstructed ==
    /\ outcome.decode \in {"running", "returned"}
    /\ pc \notin {"decode", "decode_header", "decode_tree"}

\* The records <<symbol, length, codeword>> of the header at the front of b
HeaderRecords(b) ==
    [i \in 1..UnpackH(b, 0) |->
        <<UnpackB(b, 4 * i - 2), UnpackB(b, 4 * i - 1), UnpackH(b, 4 * i)>>]

\* A record's path ends at or passes through the leaf of an earlier record
\* of another symbol.
Collides(recs) ==
    \E i, j \in 1..Len(recs) :
        /\ i < j
        /\ recs[i][1] # recs[j][1]
        /\ IsPrefix(CodePath(recs[i][2], recs[i][3]), CodePath(recs[j][2], recs[j][3]))

PushNo(node) == node[<<>>].char_list[1]

----------------------------------------------------------------------------
(* Properties *)

\* C1: round trip.  When a text is encoded on the tree built from that same
\* text and the buffer is decoded by a fresh tree, decode returns exactly
\* the text.
C1_RoundTrip ==
    (Built /\ text = input /\ outcome.encode = "returned" /\ buf = encoded
        /\ Finished("decode"))
    => (outcome.decode = "returned" /\ decoded = input)

\* C2: output framing.  The buffer encode returns is one byte holding the
\* padding count, then the header of 2+4N bytes from offset 1, then
\* ceil(T/8) data bytes.
C2_Framing ==
    outcome.encode = "returned" =>
        LET N == Len(head[<<>>].char_list)
            T == TotalBits(text)
            pad == IF (T % 8) > 0 THEN 8 - (T % 8) ELSE 0
        IN  /\ Len(encoded) = 1 + (2 + 4 * N) + CeilDiv8(T)
            /\ encoded[1] = pad
            /\ SubSeq(encoded, 2, 3 + 4 * N) = encode_tree

\* C3: header round trip.  Once decode has rebuilt the tree from the header
\* that encode_tree wrote, its code table has the triples of the encoder's
\* table, and each record's codeword, read from bit L-1 down to bit 0 with
\* 1 = left and 0 = right, leads to a leaf that holds that record's symbol.
C3_HeaderRoundTrip ==
    (Reconstructed /\ outcome.encode = "returned" /\ buf = encoded) =>
        /\ Triples(dec_code_dict) = Triples(code_dict)
        /\ Len(dec_code_dict) = Len(code_dict)
        /\ dec_char_list = head[<<>>].char_list
        /\ \A i \in 1..Len(dec_code_dict) :
              LET n == CodePath(dec_code_dict[i].v[1], dec_code_dict[i].v[2])
              IN  /\ n \in DOMAIN dec_head
                  /\ ~HasLeft(dec_head, n) /\ ~HasRight(dec_head, n)
                  /\ dec_head[n].char_list = <<dec_code_dict[i].k>>

C3_Witness ==
    /\ Reconstructed /\ outcome.encode = "returned" /\ buf = encoded
    /\ \E i \in 1..Len(dec_code_dict) :
          dec_code_dict[i].v[1] >= 2 /\ dec_code_dict[i].v[2] = 2

\* C4: prefix-free code.  On a tree built from at least two distinct
\* symbols every symbol of the text has a code of 1 or more bits with a
\* codeword below 2^length, and no codeword is a bit-prefix of (or equal
\* to) the codeword of another symbol.
C4_PrefixFree ==
    (Built /\ Len(head[<<>>].char_list) >= 2) =>
        /\ {code_dict[i].k : i \in 1..Len(code_dict)} = Range(input)
        /\ \A i \in 1..Len(code_dict) :
              code_dict[i].v[1] >= 1 /\ code_dict[i].v[2] < Pow2(code_dict[i].v[1])
        /\ \A i, j \in 1..Len(code_dict) :
              i # j => ~IsPrefix(CodePath(code_dict[i].v[1], code_dict[i].v[2]),
                                 CodePath(code_dict[j].v[1], code_dict[j].v[2]))

C4_Witness == Built /\ pc = "idle" /\ Len(head[<<>>].char_list) >= 3

\* C5: degenerate alphabet.  A text of one repeated symbol builds a root
\* without children, the symbol's code is (1, 1), encode of the text
\* returns, and decode of the buffer returns the text.
C5_Degenerate ==
    (Built /\ OneSymbol(input)) =>
        /\ DOMAIN head = {<<>>}
        /\ head[<<>>].char_list = <<input[1]>>
        /\ code_dict = <<[k |-> input[1], v |-> <<1, 1>>]>>
        /\ (text = input /\ Finished("encode")) => outcome.encode = "returned"
        /\ (text = input /\ outcome.encode = "returned" /\ buf = encoded
               /\ Finished("decode"))
           => (outcome.decode = "returned" /\ decoded = input)

C5_Witness ==
    /\ Built /\ OneSymbol(input) /\ Len(input) > 8
    /\ text = input /\ outcome.encode = "returned" /\ padding > 0
    /\ buf = encoded /\ outcome.decode = "returned"

\* C6: empty input.  build_tree on an empty text raises ValueError and
\* leaves the input, the frequency table, the root, the code table and the
\* queue as they were; nothing is output.
C6_EmptyInput ==
    [][(pc = "build_tree" /\ text = <<>>) =>
          /\ pc' = "idle"
          /\ outcome'.build_tree = "ValueError"
          /\ UNCHANGED <<input, char_freqs, head, code_dict, has_code_dict,
                         freq, pqueue, output, encoded>>]_vars

C6_Witness == outcome.build_tree = "ValueError" /\ Built /\ input # <<>>

\* C7: pop order.  The queue is in ascending order of freq; pop returns None
\* exactly when the queue is empty, and otherwise removes a node of minimal
\* freq, the most recently pushed one among the nodes of that freq.
C7_PopOrder ==
    /\ \A i, j \in 1..Len(pqueue) : i < j => Freq(pqueue[i]) <= Freq(pqueue[j])
    /\ popped.called =>
          /\ IsNone(popped.val) <=> popped.from = <<>>
          /\ popped.from # <<>> =>
                /\ \E i \in 1..Len(popped.from) :
                      /\ popped.from[i] = popped.val
                      /\ popped.rest = SubSeq(popped.from, 1, i - 1)
                                          \o SubSeq(popped.from, i + 1, Len(popped.from))
                /\ \A j \in 1..Len(popped.from) :
                      /\ Freq(popped.val) <= Freq(popped.from[j])
                      /\ Freq(popped.from[j]) = Freq(popped.val)
                            => PushNo(popped.from[j]) <= PushNo(popped.val)

C7_Witness ==
    /\ popped.called /\ Len(popped.from) >= 3
    /\ \E j \in 1..Len(popped.from) :
          /\ popped.from[j] # popped.val
          /\ Freq(popped.from[j]) = Freq(popped.val)
    /\ \E j \in 1..Len(popped.from) : Freq(popped.from[j]) > Freq(popped.val)

\* C8: the packer drains complete bytes.  After each symbol fewer than 8
\* bits are pending, so the final padding is in 1..7 when bits remain and
\* ceil(T/8) data bytes are emitted.
C8_Drained ==
    /\ pc = "encode_loop" => num_bits < 8
    /\ (Finished("encode") /\ num_bits # 0) => padding \in 1..7
    /\ Finished("encode") =>
          outcome.encode = "returned" /\ total_length = CeilDiv8(TotalBits(text))

\* C9: corrupt header.  decode of a header in which a record's path ends at
\* or passes through the leaf of an earlier record fails with CorruptHeader
\* and returns no text.
C9_CorruptHeader ==
    (Finished("decode") /\ outcome.decode # "struct.error"
        /\ Collides(HeaderRecords(buf)))
    => (outcome.decode = "CorruptHeader" /\ decoded = <<>>)

\* C10: encode terminates.  At every symbol of the text, also one that is
\* not in the tree, the traversal of get_code reaches a leaf: it is never at
\* a node with children of which none holds the symbol.
C10_EncodeProgress ==
    (pc = "encode_loop" /\ ei <= Len(text)) => ~get_code(text[ei]).spin

====
